---- MODULE Spec2Model ----
(***************************************************************************)
(* BridgeGuard: the signer (auth.js), the transport client (api-client.js), *)
(* the security tester (security-tester.js) and the security runner        *)
(* (security-test-runner.js), as state machines.                            *)
(*                                                                          *)
(* JavaScript strings are sequences of one-character strings.  The          *)
(* cryptographic primitives are ideal: sha256 is collision free, and        *)
(* secp256k1.ecdsaSign (RFC 6979 nonces, the library default) is a          *)
(* deterministic function of digest and key, injective in the digest.       *)
(***************************************************************************)
EXTENDS Integers, Sequences, FiniteSets, TLC

VARIABLES
    fmtIn,      \* the value handed to isSignatureValid
    fmtOut,     \* what the format check and the malleability probe returned
    signAuth,   \* the GalaAuth instance of the signing scenario
    signLog,    \* the sign operations performed on it, oldest first
    now,        \* the clock of the pacing scenario, in ms
    calls,      \* the makeRequest calls of one GalaBridgeClient
    fan,        \* the calls of one fan-out, by index and by arrival
    pc,         \* where the runner / runAllSecurityTests stands
    cfg,        \* config.wallet as loaded from the environment
    client,     \* the client the BridgeSecurityTester was constructed with
    signCalls,  \* signRequest calls made on client.auth so far
    testResults,      \* BridgeSecurityTester.testResults
    vulnerabilities,  \* BridgeSecurityTester.vulnerabilities
    results,    \* runAllSecurityTests: results
    criticalVulnerabilities,  \* runAllSecurityTests: criticalVulnerabilities
    started,    \* the tests the for-loop has called, in order
    executing,  \* the tests whose runSecurityTest has not returned yet
    loc,        \* the local variables of the executing test body
    thrown,     \* for each finished test, whether its testFunction threw
    summary,    \* what runAllSecurityTests returned
    verdict,    \* the runner's status line, report and exit code
    earlier     \* what the earlier runAllSecurityTests calls on this tester returned

fmtVars == <<fmtIn, fmtOut>>
signVars == <<signAuth, signLog>>
paceVars == <<now, calls, fan>>
runVars == <<pc, cfg, client, signCalls, testResults, vulnerabilities, results,
             criticalVulnerabilities, started, executing, loc, thrown, summary, verdict,
             earlier>>
vars == <<fmtIn, fmtOut, signAuth, signLog, now, calls, fan, pc, cfg, client, signCalls,
          testResults, vulnerabilities, results, criticalVulnerabilities, started,
          executing, loc, thrown, summary, verdict, earlier>>

(***************************************************************************)
(* Characters and strings                                                   *)
(***************************************************************************)
Digits == <<"0", "1", "2", "3", "4", "5", "6", "7", "8", "9">>
UpperLetters ==
    <<"A", "B", "C", "D", "E", "F", "G", "H", "I", "J", "K", "L", "M",
      "N", "O", "P", "Q", "R", "S", "T", "U", "V", "W", "X", "Y", "Z">>
LowerLetters ==
    <<"a", "b", "c", "d", "e", "f", "g", "h", "i", "j", "k", "l", "m",
      "n", "o", "p", "q", "r", "s", "t", "u", "v", "w", "x", "y", "z">>

Range(q) == {q[i] : i \in 1..Len(q)}
IndexOf(q, c) == CHOOSE i \in 1..Len(q) : q[i] = c

\* The code unit of a character (ASCII); "_" is 95.
CharCode(c) ==
    IF c \in Range(Digits) THEN 47 + IndexOf(Digits, c)
    ELSE IF c \in Range(UpperLetters) THEN 64 + IndexOf(UpperLetters, c)
    ELSE IF c \in Range(LowerLetters) THEN 96 + IndexOf(LowerLetters, c)
    ELSE 95

Repeat(c, n) == [i \in 1..n |-> c]

\* String.prototype.toUpperCase / toLowerCase, character by character.
CharToUpper(c) == IF c \in Range(LowerLetters) THEN UpperLetters[IndexOf(LowerLetters, c)] ELSE c
CharToLower(c) == IF c \in Range(UpperLetters) THEN LowerLetters[IndexOf(UpperLetters, c)] ELSE c
toUpperCase(s) == [i \in 1..Len(s) |-> CharToUpper(s[i])]
toLowerCase(s) == [i \in 1..Len(s) |-> CharToLower(s[i])]

HexPrefix == <<"0", "x">>
HasHexPrefix(s) == Len(s) >= 2 /\ s[1] = "0" /\ s[2] = "x"
\* '0x' + signature
AddHexPrefix(s) == HexPrefix \o s
\* signature.replace(/^0x/, '')
StripHexPrefix(s) == IF HasHexPrefix(s) THEN SubSeq(s, 3, Len(s)) ELSE s

(***************************************************************************)
(* JavaScript values that can reach the format check                        *)
(***************************************************************************)
JsString(s) == [t |-> "string", s |-> s, n |-> 0]
JsNumber(n) == [t |-> "number", s |-> <<>>, n |-> n]
JsNull == [t |-> "object", s |-> <<>>, n |-> 0]
JsUndefined == [t |-> "undefined", s |-> <<>>, n |-> 0]

\* !value
Falsy(v) ==
    \/ v.t = "undefined"
    \/ v = JsNull
    \/ v.t = "string" /\ Len(v.s) = 0
    \/ v.t = "number" /\ v.n = 0

SignatureLength == 128

\* One character of the class [0-9a-fA-F], by code-unit ranges.
InHexClass(c) ==
    LET k == CharCode(c)
    IN  \/ 48 <= k /\ k <= 57
        \/ 97 <= k /\ k <= 102
        \/ 65 <= k /\ k <= 70

\* /^[0-9a-fA-F]+$/.test(s): from the start the greedy class consumes up to
\* the first character outside it; the match needs at least one character
\* consumed and the end of input right after.
HexRunEnd(s) ==
    IF \E i \in 1..Len(s) : ~InHexClass(s[i])
    THEN CHOOSE i \in 1..Len(s) :
            /\ ~InHexClass(s[i])
            /\ \A j \in 1..(i - 1) : InHexClass(s[j])
    ELSE Len(s) + 1

HexRegexTest(s) == HexRunEnd(s) >= 2 /\ HexRunEnd(s) = Len(s) + 1

\* The length the check compares against.
LengthMismatchLoose(s) == Len(s) < SignatureLength
LengthMismatch(s) == Len(s) # SignatureLength

\* The body of the try block of isSignatureValid: "true", "false", or
\* "throw" (no statement of the body can throw once the guard has passed).
IsSignatureValidBody(v) ==
    IF Falsy(v) \/ v.t # "string" THEN "false"
    ELSE IF LengthMismatch(v.s) THEN "false"
    ELSE IF ~HexRegexTest(v.s) THEN "false"
    ELSE "true"

\* isSignatureValid(signature, data): the catch turns a throw into false.
isSignatureValid(v) == IsSignatureValidBody(v) = "true"

(***************************************************************************)
(* testSignatureMalleability, given the signature signRequest returned      *)
(***************************************************************************)
ManipulatedSignatures(sig) ==
    <<toLowerCase(sig), toUpperCase(sig), AddHexPrefix(sig), StripHexPrefix(sig)>>

\* TRUE iff the probe throws 'Signature malleability detected'.
VulnerableToMalleability(sig) ==
    \E i \in 1..4 :
        LET manipulated == ManipulatedSignatures(sig)[i]
        IN  manipulated # sig /\ isSignatureValid(JsString(manipulated))

(***************************************************************************)
(* The format check applied to bounded inputs                               *)
(***************************************************************************)
\* How far the probed lengths stray from SignatureLength.
MaxLenSlack == 2

FillChars == {"0", "9", "a", "f", "A", "F", "g", "G", "x", "_"}
InvalidSignatureText ==
    <<"i", "n", "v", "a", "l", "i", "d", "_", "s", "i", "g", "n", "a", "t", "u", "r", "e">>

\* Strings 'c1 c2 c2 ... c2' of the probed lengths, with and without '0x'.
Patterned(c1, c2, n) == [i \in 1..n |-> IF i = 1 THEN c1 ELSE c2]
ProbeLengths ==
    (0..MaxLenSlack) \cup ((SignatureLength - MaxLenSlack)..(SignatureLength + MaxLenSlack))
ProbeStrings ==
    {Patterned(c1, c2, n) : c1 \in FillChars, c2 \in {"0", "a", "F", "g"}, n \in ProbeLengths}
        \cup {AddHexPrefix(Patterned(c, c, n)) :
                c \in {"0", "a", "F"}, n \in ProbeLengths}
        \cup {InvalidSignatureText}
FormatInputs ==
    {JsString(s) : s \in ProbeStrings}
        \cup {JsNull, JsUndefined, JsNumber(0), JsNumber(SignatureLength)}

FmtIdle == [done |-> FALSE, accepted |-> FALSE, variants |-> {}, malleable |-> FALSE]

\* The variants of an accepted string that differ from it, each with the
\* verdict of the format check on it.
Truncate(s) == SubSeq(s, 1, Len(s) - 1)
VariantsOf(s) ==
    LET all == { <<"lower", toLowerCase(s)>>, <<"upper", toUpperCase(s)>>,
                 <<"prefixed", AddHexPrefix(s)>>, <<"unprefixed", StripHexPrefix(s)>>,
                 <<"truncated", Truncate(s)>> }
    IN  { [kind |-> p[1], accepted |-> isSignatureValid(JsString(p[2]))] :
            p \in {q \in all : q[2] # s} }

FmtStart == fmtIn \in FormatInputs /\ fmtOut = FmtIdle
FmtOff == fmtIn = JsUndefined /\ fmtOut = FmtIdle

CheckFormat ==
    /\ ~fmtOut.done
    /\ fmtOut' = [done |-> TRUE,
                  accepted |-> isSignatureValid(fmtIn),
                  variants |-> IF fmtIn.t = "string" /\ Len(fmtIn.s) > 0
                               THEN VariantsOf(fmtIn.s) ELSE {},
                  malleable |-> fmtIn.t = "string" /\ VulnerableToMalleability(fmtIn.s)]
    /\ UNCHANGED <<fmtIn, signVars, paceVars, runVars>>

(***************************************************************************)
(* GalaAuth (auth.js)                                                       *)
(***************************************************************************)
\* Bounds of the signing scenarios.
MaxPayload == 3
MaxChainId == 2
MaxNonce == 6
MaxSigns == 3

\* A request body is a JavaScript object: its own properties in insertion
\* order, each <<field, value>> with the field an index into FieldNames and
\* the value a positive number (an opaque payload, a chain id, a key, a nonce).
FieldNames == <<"data", "chainId", "signerPublicKey", "uniqueKey">>
Field(name) == IndexOf(FieldNames, name)
ValueBase ==
    1 + (CHOOSE m \in {MaxPayload, MaxChainId, MaxNonce} :
            \A k \in {MaxPayload, MaxChainId, MaxNonce} : k <= m)

HasField(body, f) == \E i \in 1..Len(body) : body[i][1] = f
GetField(body, f) == body[CHOOSE i \in 1..Len(body) : body[i][1] = f][2]
\* { ...body, f: v }: an existing property keeps its place, a new one is last.
SetField(body, f, v) ==
    IF HasField(body, f)
    THEN [i \in 1..Len(body) |-> IF body[i][1] = f THEN <<f, v>> ELSE body[i]]
    ELSE Append(body, <<f, v>>)

Payload(p) == << <<Field("data"), p>> >>
NoChain == 0
\* The payload as signed for chain c: { ...testData, chainId: c }.
WithChain(body, c) == IF c = NoChain THEN body ELSE SetField(body, Field("chainId"), c)

\* JSON.stringify(requestBody): the properties in order, each one token.
StringifyWithoutChain(body) ==
    LET kept == SelectSeq(body, LAMBDA kv : kv[1] # Field("chainId"))
    IN  [i \in 1..Len(kept) |-> (kept[i][1] - 1) * ValueBase + kept[i][2]]
Stringify(body) == [i \in 1..Len(body) |-> (body[i][1] - 1) * ValueBase + body[i][2]]

\* crypto.createHash('sha256').update(message).digest(): collision free; the
\* digest is the message read as a numeral with no zero digit.
DigestBase == Len(FieldNames) * ValueBase + 1
RECURSIVE sha256(_)
sha256(message) ==
    IF Len(message) = 0 THEN 0
    ELSE sha256(SubSeq(message, 1, Len(message) - 1)) * DigestBase + message[Len(message)]

\* The credentials: the configured wallet key, the runner's fallback key
\* 'a'.repeat(64), and a key that is not 32 bytes of hex.
\* The signer is also given "trailingKey", the wallet key followed by
\* characters that are no hex digits, and "absentKey", no key at all.
ClientKeys == {"walletKey", "fallbackKey", "malformedKey"}
PrivateKeys == ClientKeys \cup {"trailingKey", "absentKey"}
\* The key as text: the hex digits it begins with, and the characters from
\* the first that is no hex digit on.
KeyShape(k) ==
    IF k \in {"walletKey", "fallbackKey"} THEN [hex |-> 64, rest |-> 0]
    ELSE IF k = "trailingKey" THEN [hex |-> 64, rest |-> 2]
    ELSE IF k = "malformedKey" THEN [hex |-> 0, rest |-> 12]
    ELSE [hex |-> 0, rest |-> 0]
WellFormedKey(k) == KeyShape(k) = [hex |-> 64, rest |-> 0]
\* Buffer.from(key, 'hex') decodes the pairs of hex digits before the first
\* character that is none and drops the rest; ecdsaSign takes a key of
\* exactly 32 bytes and throws on any other.
PrivateKeyBytes == 32
DecodedKeyLength(k) == KeyShape(k).hex \div 2
ValidPrivateKey(k) == DecodedKeyLength(k) = PrivateKeyBytes
KeyPad(k) == IF k \in {"walletKey", "trailingKey"} THEN 171 ELSE 90

\* secp256k1.ecdsaSign(messageHash, key).signature: 64 bytes, a
\* deterministic function of digest and key, injective in the digest.
SignatureBytes == 64
ecdsaSign(digest, k) ==
    [i \in 1..SignatureBytes |->
        IF i <= 4 THEN ((digest \div (256 ^ (i - 1))) + KeyPad(k)) % 256
        ELSE (KeyPad(k) + i) % 256]

\* Buffer.toString('hex'): two lowercase digits per byte.
HexDigits == <<"0", "1", "2", "3", "4", "5", "6", "7", "8", "9", "a", "b", "c", "d", "e", "f">>
toHex(bytes) ==
    [i \in 1..(2 * Len(bytes)) |->
        LET b == bytes[(i + 1) \div 2]
        IN  IF i % 2 = 1 THEN HexDigits[(b \div 16) + 1] ELSE HexDigits[(b % 16) + 1]]

GalaAuth(privateKey, publicKey, walletAddress) ==
    [privateKey |-> privateKey, publicKey |-> publicKey, walletAddress |-> walletAddress]

\* signRequest(requestBody): the signature, or the throw of ecdsaSign on a
\* key that is not a 32-byte private key.
Returned(v) == [threw |-> FALSE, value |-> v]
Threw == [threw |-> TRUE, value |-> <<>>]
signRequest(auth, body) ==
    IF ~ValidPrivateKey(auth.privateKey) THEN Threw
    ELSE Returned(toHex(ecdsaSign(sha256(Stringify(body)), auth.privateKey)))

\* generateUniqueKey(): crypto.randomBytes(32), the n-th draw of the process.
generateUniqueKey(n) == n

\* prepareRequestBody(data), with n random draws made so far.
prepareRequestBodyKeepingOwn(auth, data, n) ==
    LET withKey == IF HasField(data, Field("signerPublicKey")) THEN data
                   ELSE SetField(data, Field("signerPublicKey"), auth.publicKey)
    IN  IF HasField(withKey, Field("uniqueKey")) THEN withKey
        ELSE SetField(withKey, Field("uniqueKey"), generateUniqueKey(n + 1))
prepareRequestBody(auth, data, n) ==
    SetField(SetField(data, Field("signerPublicKey"), auth.publicKey),
             Field("uniqueKey"), generateUniqueKey(n + 1))

(***************************************************************************)
(* Sign operations on one GalaAuth                                          *)
(***************************************************************************)
SignStart ==
    /\ signAuth \in {GalaAuth(k, 1, "wallet") : k \in PrivateKeys}
    /\ signLog = <<>>
SignOff == signAuth = GalaAuth("walletKey", 1, "wallet") /\ signLog = <<>>

\* The GalaAuth after prepareRequestBody or signRequest has run on it: both
\* read this.privateKey, this.publicKey and this.walletAddress and assign
\* to none of them.
AuthAfterUseRekeyed(auth) == [auth EXCEPT !.privateKey = "fallbackKey"]
AuthAfterUse(auth) == auth

\* sign(P, C): signRequest on the payload carrying the chain id.
SignRequest(p, c) ==
    /\ Len(signLog) < MaxSigns
    /\ signLog' = Append(signLog,
            [payload |-> p, chain |-> c,
             out |-> signRequest(signAuth, WithChain(Payload(p), c))])
    /\ signAuth' = AuthAfterUse(signAuth)
    /\ UNCHANGED <<fmtVars, paceVars, runVars>>

SignNext == \E p \in 1..MaxPayload, c \in {NoChain} \cup (1..MaxChainId) : SignRequest(p, c)
(***************************************************************************)
(* GalaBridgeClient.makeRequest: pacing (api-client.js)                     *)
(***************************************************************************)
rateLimitDelay == 500

\* Bounds of the pacing scenario: the calls issued, the clock's step and end.
MaxCalls == 2
TickMs == 250
MaxTicks == 2

\* config.testing.rateLimitDelay: parseInt(process.env.RATE_LIMIT_DELAY) || 500.
\* The environment either leaves the variable unset ("") or sets a number.
RateLimitDelayEnv == {"", "1000"}
DefaultRateLimitDelay == 500
parseInt(text) == IF text = "1000" THEN 1000 ELSE 0
configRateLimitDelay(env) ==
    IF parseInt(env) = 0 THEN DefaultRateLimitDelay ELSE parseInt(env)

\* What fetch was handed: the names of the headers, the body before
\* JSON.stringify, the value of X-Signature and of X-Wallet-Address.
NotSent == [headers |-> {}, body |-> <<>>, signature |-> <<>>, wallet |-> ""]

\* A call: where it stands, when makeRequest was entered, when its timer is
\* due, when fetch was called, how many times fetch was called for it, what
\* came back, the method it was made through, its data argument (hasData
\* FALSE is data = null), whether a unique key was drawn for it, what fetch
\* was handed, how makeRequest ended, and whether an earlier call of the
\* client had been answered 429 when this one was made.
IdleCall == [st |-> "idle", issued |-> 0, due |-> 0, at |-> 0, fetches |-> 0,
             outcome |-> "none", entry |-> "none", hasData |-> FALSE, data |-> <<>>,
             drawn |-> FALSE, sent |-> NotSent, result |-> "none", after429 |-> FALSE]
\* makeRequest itself and the wrappers that return await this.makeRequest(...).
EntryPoints == {"makeRequest", "getBridgeConfigurations", "requestBridge"}
\* A payload that carries a uniqueKey and a signerPublicKey of the caller's.
CallerPublicKey == 2
OwnFieldsPayload ==
    << <<Field("uniqueKey"), MaxNonce>>, <<Field("data"), 1>>,
       <<Field("signerPublicKey"), CallerPublicKey>> >>
\* The data argument each entry point can pass: getBridgeConfigurations
\* passes none, requestBridge always an object of its five parameters,
\* makeRequest none or any object.
EntryData(e) ==
    IF e = "getBridgeConfigurations" THEN {[hasData |-> FALSE, data |-> <<>>]}
    ELSE IF e = "requestBridge" THEN {[hasData |-> TRUE, data |-> Payload(2)]}
    ELSE {[hasData |-> FALSE, data |-> <<>>], [hasData |-> TRUE, data |-> OwnFieldsPayload]}
\* What fetch and response.json() come to: a 2xx body, a non-2xx status
\* (makeRequest throws 'API Error'), a rejected fetch or an unparsable body.
StatusOutcomes == {"429", "500"}
FetchOutcomes == {"ok", "transport"} \cup StatusOutcomes
\* The catch of makeRequest logs and rethrows: the call is over either way.
RetriesAfterFailure(outcome) == IF outcome = "ok" THEN "settled" ELSE "delaying"
AfterResponse(outcome) == "settled"
\* return result on response.ok, throw otherwise.
makeRequestResult(outcome) == IF outcome = "ok" THEN "returned" ELSE "threw"

\* The headers of a call with data: the default Content-Type overlaid with
\* getAuthHeaders(requestBody).
UnsignedHeaders(auth, requestBody) ==
    [names |-> {"Content-Type"}, signature |-> <<>>, wallet |-> ""]
getAuthHeaders(auth, requestBody) ==
    [names |-> {"X-Wallet-Address", "Content-Type", "X-Signature"},
     signature |-> signRequest(auth, requestBody).value,
     wallet |-> auth.walletAddress]
\* The options makeRequest builds for a call, n unique keys drawn so far.
RequestOptionsSignedApart(auth, c, n) ==
    IF c.hasData
    THEN LET requestBody == prepareRequestBody(auth, c.data, n)
             headers == getAuthHeaders(auth, prepareRequestBody(auth, c.data, n + 1))
         IN  [headers |-> headers.names, body |-> requestBody,
              signature |-> headers.signature, wallet |-> headers.wallet]
    ELSE [headers |-> {"Content-Type"}, body |-> <<>>, signature |-> <<>>, wallet |-> ""]
RequestOptions(auth, c, n) ==
    IF c.hasData
    THEN LET requestBody == prepareRequestBody(auth, c.data, n)
             headers == getAuthHeaders(auth, requestBody)
         IN  [headers |-> headers.names, body |-> requestBody,
              signature |-> headers.signature, wallet |-> headers.wallet]
    ELSE [headers |-> {"Content-Type"}, body |-> <<>>, signature |-> <<>>, wallet |-> ""]

\* No fan-out is under way.
NoFan == [kind |-> "none", answers |-> <<>>, results |-> <<>>, arrival |-> <<>>,
          judged |-> FALSE, threw |-> FALSE]

PaceStart == now = 0 /\ calls = [i \in 1..MaxCalls |-> IdleCall] /\ fan = NoFan
PaceOff == now = 0 /\ calls = <<>> /\ fan = NoFan

\* Some call of the client has been answered with status 429.
Answered429 == \E j \in DOMAIN calls : calls[j].st = "settled" /\ calls[j].outcome = "429"

\* makeRequest is called: await this.delay(this.rateLimitDelay) arms a timer.
\* calls holds the calls in the order they are made.
MakeRequest(i) ==
    /\ calls[i].st = "idle"
    /\ i > 1 => calls[i - 1].st # "idle"
    /\ \E e \in EntryPoints : \E d \in EntryData(e) :
        calls' = [calls EXCEPT ![i] = [IdleCall EXCEPT !.st = "delaying",
                                                        !.issued = now,
                                                        !.due = now + rateLimitDelay,
                                                        !.entry = e,
                                                        !.hasData = d.hasData,
                                                        !.data = d.data,
                                                        !.after429 = Answered429]]
    /\ UNCHANGED <<now, fan, fmtVars, signVars, runVars>>

\* The unique keys drawn so far by the calls of the client.
Drawn == Cardinality({j \in DOMAIN calls : calls[j].drawn})

\* The timer has fired (no earlier than due): the options are built and
\* fetch(url, options) is called.  With data and a key ecdsaSign refuses,
\* getAuthHeaders throws before the try block and fetch is never called.
Dispatch(i) ==
    /\ calls[i].st = "delaying"
    /\ now >= calls[i].due
    /\ IF calls[i].hasData /\ ~ValidPrivateKey(signAuth.privateKey)
       THEN calls' = [calls EXCEPT ![i].st = "settled", ![i].drawn = TRUE,
                                   ![i].outcome = "signing", ![i].result = "threw"]
       ELSE calls' = [calls EXCEPT ![i].st = "dispatched", ![i].at = now,
                                   ![i].fetches = @ + 1,
                                   ![i].drawn = calls[i].hasData,
                                   ![i].sent = RequestOptions(signAuth, calls[i], Drawn)]
    /\ signAuth' = IF calls[i].hasData THEN AuthAfterUse(signAuth) ELSE signAuth
    /\ UNCHANGED <<now, fan, fmtVars, signLog, runVars>>

\* The response arrived (or the fetch failed): makeRequest settles.
Settled(i) ==
    /\ calls[i].st = "dispatched"
    /\ \E r \in FetchOutcomes :
        calls' = [calls EXCEPT ![i].st = AfterResponse(r), ![i].outcome = r,
                               ![i].result = makeRequestResult(r)]
    /\ UNCHANGED <<now, fan, fmtVars, signVars, runVars>>

Tick ==
    /\ now < MaxTicks * TickMs
    /\ now' = now + TickMs
    /\ UNCHANGED <<calls, fan, fmtVars, signVars, runVars>>

PaceNext == Tick \/ \E i \in 1..MaxCalls : MakeRequest(i) \/ Dispatch(i) \/ Settled(i)




(***************************************************************************)
(* The clients a BridgeSecurityTester is constructed with                   *)
(***************************************************************************)
\* A GalaBridgeClient holding a GalaAuth, or a substitute object of the same
\* shape whose auth.signRequest is scripted: "constant" returns
\* 'a'.repeat(128) (the demo's mock), "counter" returns the zero-padded
\* number of the call, "throws" raises.
\* The calls the tests make, by what they ask for: the bridge configurations
\* (rate limiting), the oversized payload, an admin endpoint, the bridge
\* request of the double-spending test, a bridge request for an invalid token.
CallClasses == {"configurations", "oversized", "admin", "bridge", "invalidToken"}
\* The demo's mock answers by endpoint and payload alone: 403 on admin/,
\* 413 on a large payload, a result otherwise.
AcceptingScript == [k \in CallClasses |-> "ok"]
DemoScript ==
    [k \in CallClasses |-> IF k = "admin" THEN "403" ELSE IF k = "oversized" THEN "413" ELSE "ok"]
\* policy says how a client answers: "none" is the remote service behind a
\* GalaBridgeClient, "any" a substitute that may answer anything, "canned" a
\* substitute answering by its script, "window" one that serves WindowCap
\* calls of a burst and refuses the rest, "dedup" one that accepts a bridge
\* request once and refuses its repetitions.
LiveClient(key) ==
    [kind |-> "live", auth |-> GalaAuth(key, 1, "wallet"), signer |-> "ecdsa",
     policy |-> "none", script |-> DemoScript]
SubstituteClient(mode) ==
    [kind |-> "substitute", auth |-> GalaAuth("fallbackKey", 1, "demo"), signer |-> mode,
     policy |-> "any", script |-> DemoScript]
CannedClient(mode, script) ==
    [SubstituteClient(mode) EXCEPT !.policy = "canned", !.script = script]
WindowClient(mode) == [SubstituteClient(mode) EXCEPT !.policy = "window"]
DedupClient(mode) == [SubstituteClient(mode) EXCEPT !.policy = "dedup"]
\* "whitelist": a substitute that accepts a bridge request only for a
\* whitelisted collection with category Unit and type none.
WhitelistClient(mode) == [SubstituteClient(mode) EXCEPT !.policy = "whitelist"]
SubstituteSigners == {"constant", "counter", "throws"}
Clients ==
    {LiveClient(k) : k \in ClientKeys} \cup {SubstituteClient(m) : m \in SubstituteSigners}

CounterSignature(n) ==
    [i \in 1..SignatureLength |-> IF i = SignatureLength THEN Digits[(n % 10) + 1] ELSE "0"]

\* this.client.auth.signRequest(body), the n-th call on this client being made.
ClientSign(c, body, n) ==
    IF c.kind = "live" THEN signRequest(c.auth, body)
    ELSE IF c.signer = "constant" THEN Returned(Repeat("a", SignatureLength))
    ELSE IF c.signer = "counter" THEN Returned(CounterSignature(n))
    ELSE Threw

(***************************************************************************)
(* What a call through a client comes back with                             *)
(***************************************************************************)
\* "ok": a 2xx body without an error field; "okError": a 2xx body with one;
\* every other outcome is a thrown Error, named by what its message holds.
RemoteOutcomes ==
    {"ok", "okError", "413", "payload too large", "403", "404", "429", "rate limit",
     "unauthorized", "invalid signature", "server", "network"}
IsError(r) == r \notin {"ok", "okError"}
\* error.message.includes(token)
Includes(r, token) == IsError(r) /\ r = token

\* makeRequest with a payload signs it first: a key ecdsaSign refuses makes
\* the call throw before anything is sent.
CallOutcomes(c, withData) ==
    IF c.kind = "live" /\ withData /\ ~ValidPrivateKey(c.auth.privateKey)
    THEN {"signing"}
    ELSE RemoteOutcomes

\* The limit the rate limiting test means to exceed: 20 requests per window.
WindowCap == 20
\* How a substitute refuses: a result with an error field, or a thrown Error.
Refusals == {"okError", "server"}

\* The tokens testInvalidTokenManipulation submits, in its order; null is
\* the collection that is null.
InvalidTokenList ==
    << [collection |-> "", category |-> "Unit", type |-> "none"],
       [collection |-> "null", category |-> "Unit", type |-> "none"],
       [collection |-> "NONEXISTENT_TOKEN", category |-> "Unit", type |-> "none"],
       [collection |-> "GALA", category |-> "Admin", type |-> "none"],
       [collection |-> "GALA", category |-> "Unit", type |-> "exploit"] >>
\* The token of the bridge requests the other tests make.
GalaToken == [collection |-> "GALA", category |-> "Unit", type |-> "none"]
Whitelist == {"GALA"}
WhitelistAccepts(token) ==
    token.collection \in Whitelist /\ token.category = "Unit" /\ token.type = "none"
\* The token a call of class k carries, l.attempts calls made before it.
TokenOf(k, l) ==
    IF k = "invalidToken" /\ l.attempts < Len(InvalidTokenList)
    THEN InvalidTokenList[l.attempts + 1] ELSE GalaToken

\* What a call of class k through client c may come back with, the test
\* body having made l.attempts calls of which l.successful were accepted.
Responses(c, k, l) ==
    IF c.policy = "canned" THEN {c.script[k]}
    ELSE IF c.policy = "window" THEN {IF l.attempts < WindowCap THEN "ok" ELSE "429"}
    ELSE IF c.policy = "dedup"
         THEN IF k = "bridge" /\ l.successful > 0 THEN Refusals ELSE {"ok"}
    ELSE IF c.policy = "whitelist"
         THEN IF k \in {"bridge", "invalidToken"} /\ ~WhitelistAccepts(TokenOf(k, l))
              THEN Refusals ELSE {"ok"}
    ELSE CallOutcomes(c, k # "configurations")

(***************************************************************************)
(* BridgeSecurityTester (security-tester.js)                                *)
(***************************************************************************)
Catalogue ==
    << [name |-> "Signature Validation", severity |-> "high"],
       [name |-> "Signature Replay Protection", severity |-> "high"],
       [name |-> "Signature Malleability", severity |-> "high"],
       [name |-> "Rate Limiting Protection", severity |-> "medium"],
       [name |-> "Resource Exhaustion Protection", severity |-> "medium"],
       [name |-> "Unauthorized Access Protection", severity |-> "high"],
       [name |-> "Privilege Escalation Protection", severity |-> "high"],
       [name |-> "Double Spending Protection", severity |-> "high"],
       [name |-> "Invalid Token Manipulation", severity |-> "medium"] >>
NumTests == Len(Catalogue)

\* log(message, type, severity): the entry, and whether it is also pushed
\* to this.vulnerabilities.
\* test is the number of the test the message names when it reports that
\* test's failure or success, 0 for any other message.
Entry(type, severity, tag) == [type |-> type, severity |-> severity, tag |-> tag, test |-> 0]
IsVulnerability(e) == e.type = "critical" \/ e.severity = "high"
LogAllNewestFirst(entries) ==
    /\ testResults' = testResults \o entries
    /\ vulnerabilities' = SelectSeq(entries, IsVulnerability) \o vulnerabilities
LogAll(entries) ==
    /\ testResults' = testResults \o entries
    /\ vulnerabilities' = vulnerabilities \o SelectSeq(entries, IsVulnerability)

\* runSecurityTest: what it returns when testFunction returned / threw.
SwallowedResult(i, threw) == [success |-> TRUE, severity |-> "none"]
TestResult(i, threw) ==
    IF threw THEN [success |-> FALSE, severity |-> Catalogue[i].severity]
    ELSE [success |-> TRUE, severity |-> "none"]
\* ... and what it logs.
OutcomeEntry(i, threw) ==
    IF threw THEN [Entry("critical", Catalogue[i].severity, "failed") EXCEPT !.test = i]
    ELSE [Entry("success", "info", "passed") EXCEPT !.test = i]

\* testSignatureValidation's testFunction throws.
TestData == Payload(1)
InvalidSignatures ==
    << <<>>, HexPrefix, InvalidSignatureText, Repeat("0", SignatureLength - 1),
       Repeat("0", SignatureLength + 1), Repeat("g", SignatureLength) >>
testSignatureValidationThrows(c, n) ==
    LET validSignature == ClientSign(c, TestData, n + 1)
    IN  \/ validSignature.threw
        \/ Len(validSignature.value) = 0
        \/ Len(validSignature.value) # SignatureLength
        \/ \E k \in 1..Len(InvalidSignatures) : isSignatureValid(JsString(InvalidSignatures[k]))

\* testSignatureReplayAttacks's testFunction throws.
EthereumChainId == 2
GalaChainId == 1
testSignatureReplayAttacksThrows(c, n) ==
    LET signature1 == ClientSign(c, TestData, n + 1)
        signature2 == ClientSign(c, TestData, n + 2)
        ethSig == ClientSign(c, WithChain(TestData, EthereumChainId), n + 3)
        galaSig == ClientSign(c, WithChain(TestData, GalaChainId), n + 4)
        requestWithUniqueKey == prepareRequestBody(c.auth, TestData, 0)
    IN  \/ signature1.threw
        \/ signature1 = signature2
        \/ ethSig = galaSig
        \/ ~HasField(requestWithUniqueKey, Field("uniqueKey"))

\* testSignatureMalleability's testFunction throws.
testSignatureMalleabilityThrows(c, n) ==
    LET signature == ClientSign(c, TestData, n + 1)
    IN  signature.threw \/ VulnerableToMalleability(signature.value)

\* testResourceExhaustion's testFunction throws, given the outcome r of the
\* oversized call: only a size-limit rejection is a pass.
testResourceExhaustionThrowsOnAccept(r) == ~IsError(r)
testResourceExhaustionThrows(r) == ~(Includes(r, "413") \/ Includes(r, "payload too large"))

\* testUnauthorizedAccess's testFunction throws, given the outcome r of the
\* bridge request made through its own GalaBridgeClient.
testUnauthorizedAccessThrows(r) ==
    IF r = "ok" THEN TRUE
    ELSE IF r = "okError" THEN FALSE
    ELSE ~(Includes(r, "unauthorized") \/ Includes(r, "invalid signature"))

BurstAtWindowCap == WindowCap
rapidRequestCount == 25
adminEndpoints == 5
duplicateRequests == 5
invalidTokens == 5

\* The locals of a test body: the calls made, those counted successful and
\* rate limited; and, of the calls made, whether all failed in transport,
\* the clients they went through and the bodies handed to fetch.
\* inFlight counts the calls of a fan-out that were launched and have not
\* settled, rejected says that a promise handed to Promise.all has rejected,
\* last is what the single call of a test body came back with.
NoLocals ==
    [attempts |-> 0, successful |-> 0, rateLimited |-> 0, transportOnly |-> TRUE,
     via |-> {}, sent |-> <<>>, inFlight |-> 0, rejected |-> FALSE, last |-> "none"]

\* The calls a test body launches at once, before it awaits any of them.
FanOut(i) ==
    IF i = 4 THEN rapidRequestCount ELSE IF i = 8 THEN duplicateRequests ELSE 0

\* Each promise of a fan-out carries a .catch that turns the error into a
\* record: the promise handed to Promise.all never rejects.
FanOutRejectsUncaught(r) == IsError(r)
FanOutRejects(r) == FALSE
\* await Promise.all(requests) goes on when all n promises have fulfilled,
\* or as soon as one has rejected.
PromiseAllSettled(l, n) == l.attempts = n \/ l.rejected

\* A call made through client c has come back with r.
Called(l, c, r) ==
    [l EXCEPT !.attempts = @ + 1,
              !.transportOnly = @ /\ r = "network",
              !.via = @ \cup {c}]

\* The for-loop of runAllSecurityTests calls the next test only when the
\* awaited one has returned and the delay after it has elapsed.
NextTestMayStartUnawaited == pc \in {"loop", "intest", "settling"}
NextTestMayStart == pc = "loop"

Running(i) == pc = "intest" /\ i \in executing

\* runAllSecurityTests is called: the two banner entries, the empty results.
RunAllStart ==
    /\ pc = "constructed"
    /\ LogAll(<<Entry("security", "info", "banner"), Entry("info", "info", "banner")>>)
    /\ results' = <<>>
    /\ criticalVulnerabilities' = 0
    /\ started' = <<>>
    /\ thrown' = <<>>
    /\ pc' = "loop"
    /\ UNCHANGED <<cfg, client, signCalls, executing, loc, summary, verdict,
                   fmtVars, signVars, paceVars, earlier>>

\* Bound: the runAllSecurityTests calls made on one tester.
MaxRuns == 2

\* runAllSecurityTests is called again on the same tester, the caller keeping
\* what the call before returned: results and the counter start afresh,
\* this.testResults and this.vulnerabilities go on growing.
RunAllAgain ==
    /\ pc = "returned"
    /\ Len(earlier) < MaxRuns - 1
    /\ earlier' = Append(earlier, [results |-> results, summary |-> summary])
    /\ LogAll(<<Entry("security", "info", "banner"), Entry("info", "info", "banner")>>)
    /\ results' = <<>>
    /\ criticalVulnerabilities' = 0
    /\ started' = <<>>
    /\ thrown' = <<>>
    /\ pc' = "loop"
    /\ UNCHANGED <<cfg, client, signCalls, executing, loc, summary, verdict,
                   fmtVars, signVars, paceVars>>

\* test() is called: runSecurityTest logs the start and calls testFunction.
BeginTest ==
    /\ NextTestMayStart
    /\ Len(started) < NumTests
    /\ LET i == Len(started) + 1
       IN  /\ started' = Append(started, i)
           /\ executing' = executing \cup {i}
    /\ LogAll(<<Entry("security", "info", "start")>>)
    /\ loc' = [NoLocals EXCEPT !.inFlight = loc.inFlight + FanOut(Len(started) + 1)]
    /\ pc' = "intest"
    /\ UNCHANGED <<cfg, client, signCalls, results, criticalVulnerabilities, thrown,
                   summary, verdict, fmtVars, signVars, paceVars, earlier>>

\* if (!result.success && result.severity === 'high') criticalVulnerabilities++
CountsAnyFailureAsCritical(result) == ~result.success
CountsAsCritical(result) == ~result.success /\ result.severity = "high"

\* testFunction of test i has returned or thrown, after logging `pre`:
\* runSecurityTest logs the outcome and returns its result; the loop pushes it
\* and counts a failed high-severity test.
FinishTest(i, threw, pre) ==
    LET result == TestResult(i, threw)
    IN  /\ LogAll(pre \o <<OutcomeEntry(i, threw)>>)
        /\ results' = Append(results, result)
        /\ criticalVulnerabilities' =
                IF CountsAsCritical(result)
                THEN criticalVulnerabilities + 1 ELSE criticalVulnerabilities
        /\ executing' = executing \ {i}
        /\ thrown' = Append(thrown, threw)
        /\ pc' = "settling"

SignatureValidation ==
    /\ Running(1)
    /\ FinishTest(1, testSignatureValidationThrows(client, signCalls), <<>>)
    /\ signCalls' = signCalls + 1
    /\ UNCHANGED <<cfg, client, started, loc, summary, verdict, fmtVars, signVars, paceVars, earlier>>

SignatureReplay ==
    /\ Running(2)
    /\ FinishTest(2, testSignatureReplayAttacksThrows(client, signCalls), <<>>)
    /\ signCalls' = signCalls + 4
    /\ UNCHANGED <<cfg, client, started, loc, summary, verdict, fmtVars, signVars, paceVars, earlier>>

SignatureMalleability ==
    /\ Running(3)
    /\ FinishTest(3, testSignatureMalleabilityThrows(client, signCalls), <<>>)
    /\ signCalls' = signCalls + 1
    /\ UNCHANGED <<cfg, client, started, loc, summary, verdict, fmtVars, signVars, paceVars, earlier>>

\* testRateLimiting: one of the 25 getBridgeConfigurations calls settles.
RateLimitResponse ==
    /\ Running(4)
    /\ loc.attempts < rapidRequestCount
    /\ \E r \in Responses(client, "configurations", loc) :
        loc' = [Called(loc, client, r) EXCEPT
                    !.inFlight = @ - 1,
                    !.rejected = @ \/ FanOutRejects(r),
                    !.successful = @ + (IF IsError(r) THEN 0 ELSE 1),
                    !.rateLimited = @ +
                        (IF Includes(r, "rate limit") \/ Includes(r, "429") THEN 1 ELSE 0)]
    /\ UNCHANGED <<pc, cfg, client, signCalls, testResults, vulnerabilities, results,
                   criticalVulnerabilities, started, executing, thrown, summary, verdict,
                   fmtVars, signVars, paceVars, earlier>>

\* testRateLimiting's testFunction throws, given how many of its calls were
\* fulfilled: if (successful === rapidRequestCount) throw.
testRateLimitingThrows(successful, count) == successful = count

\* Promise.all has resolved: the counts are logged and judged.
RateLimitDone ==
    /\ Running(4)
    /\ PromiseAllSettled(loc, rapidRequestCount)
    /\ IF loc.rejected THEN FinishTest(4, TRUE, <<>>)
       ELSE FinishTest(4, testRateLimitingThrows(loc.successful, rapidRequestCount),
                       <<Entry("info", "info", "counts")>>)
    /\ UNCHANGED <<cfg, client, signCalls, started, loc, summary, verdict,
                   fmtVars, signVars, paceVars, earlier>>

ResourceExhaustion ==
    /\ Running(5)
    /\ \E r \in Responses(client, "oversized", loc) :
        /\ FinishTest(5, testResourceExhaustionThrows(r), <<>>)
        /\ loc' = [Called(loc, client, r) EXCEPT !.last = r]
    /\ UNCHANGED <<cfg, client, signCalls, started, summary, verdict,
                   fmtVars, signVars, paceVars, earlier>>

\* testUnauthorizedAccess builds its own GalaBridgeClient on 'a'.repeat(64)
\* and makes its bridge request through it.
unauthorizedClient == LiveClient("fallbackKey")
UnauthorizedAccess ==
    /\ Running(6)
    /\ \E r \in Responses(unauthorizedClient, "bridge", loc) :
        /\ FinishTest(6, testUnauthorizedAccessThrows(r), <<>>)
        /\ loc' = [Called(loc, unauthorizedClient, r) EXCEPT !.last = r]
    /\ UNCHANGED <<cfg, client, signCalls, started, summary, verdict,
                   fmtVars, signVars, paceVars, earlier>>

\* testPrivilegeEscalation: the next admin endpoint is probed.
PrivilegeProbe ==
    /\ Running(7)
    /\ loc.attempts < adminEndpoints
    /\ \E r \in Responses(client, "admin", loc) :
        /\ loc' = [Called(loc, client, r) EXCEPT
                        !.successful = @ + (IF r = "ok" THEN 1 ELSE 0)]
        /\ LogAll(IF r = "ok"
                     \/ (IsError(r) /\ ~Includes(r, "404") /\ ~Includes(r, "403")
                            /\ ~Includes(r, "unauthorized"))
                  THEN <<Entry("warning", "info", "warning")>> ELSE <<>>)
    /\ UNCHANGED <<pc, cfg, client, signCalls, results, criticalVulnerabilities, started,
                   executing, thrown, summary, verdict, fmtVars, signVars, paceVars, earlier>>

\* testPrivilegeEscalation's testFunction throws, given how many endpoints
\* came back with a result that has no error field.
testPrivilegeEscalationThrowsOnAll(successful) == successful = adminEndpoints
testPrivilegeEscalationThrows(successful) == successful > 0

\* The loop over the endpoints has ended.
PrivilegeDone ==
    /\ Running(7)
    /\ loc.attempts = adminEndpoints
    /\ FinishTest(7, testPrivilegeEscalationThrows(loc.successful), <<>>)
    /\ UNCHANGED <<cfg, client, signCalls, started, loc, summary, verdict,
                   fmtVars, signVars, paceVars, earlier>>

\* testDoubleSpending's testFunction throws, given how many of the identical
\* requests came back with a result that has no error field.
testDoubleSpendingThrowsOnAny(successful) == successful > 0
testDoubleSpendingThrows(successful) == successful > 1

\* The bridgeRequest of testDoubleSpending, as the data of requestBridge.
bridgeRequest == Payload(2)

\* makeRequest(endpoint, 'POST', data) on a GalaBridgeClient, n unique keys
\* drawn before it: options.body is the prepared body; a signRequest that
\* throws leaves fetch uncalled.
FetchBodies(c, data, n, r) ==
    IF c.kind = "live" /\ r # "signing" THEN <<prepareRequestBody(c.auth, data, n)>> ELSE <<>>

\* testDoubleSpending: one of the 5 requestBridge calls settles.
DoubleSpendResponse ==
    /\ Running(8)
    /\ loc.attempts < duplicateRequests
    /\ \E r \in Responses(client, "bridge", loc) :
        loc' = [Called(loc, client, r) EXCEPT
                    !.inFlight = @ - 1,
                    !.rejected = @ \/ FanOutRejects(r),
                    !.successful = @ + (IF r = "ok" THEN 1 ELSE 0),
                    !.sent = @ \o FetchBodies(client, bridgeRequest, loc.attempts, r)]
    /\ UNCHANGED <<pc, cfg, client, signCalls, testResults, vulnerabilities, results,
                   criticalVulnerabilities, started, executing, thrown, summary, verdict,
                   fmtVars, signVars, paceVars, earlier>>

DoubleSpendDone ==
    /\ Running(8)
    /\ PromiseAllSettled(loc, duplicateRequests)
    /\ FinishTest(8, loc.rejected \/ testDoubleSpendingThrows(loc.successful), <<>>)
    /\ UNCHANGED <<cfg, client, signCalls, started, loc, summary, verdict,
                   fmtVars, signVars, paceVars, earlier>>

\* testInvalidTokenManipulation: the next invalid token is submitted.
InvalidTokenProbe ==
    /\ Running(9)
    /\ loc.attempts < invalidTokens
    /\ \E r \in Responses(client, "invalidToken", loc) :
        /\ loc' = [Called(loc, client, r) EXCEPT
                        !.successful = @ + (IF r = "ok" THEN 1 ELSE 0)]
        /\ LogAll(IF r = "ok" THEN <<Entry("warning", "info", "warning")>> ELSE <<>>)
    /\ UNCHANGED <<pc, cfg, client, signCalls, results, criticalVulnerabilities, started,
                   executing, thrown, summary, verdict, fmtVars, signVars, paceVars, earlier>>

\* testInvalidTokenManipulation's testFunction throws, given how many of the
\* tokens came back with a result that has no error field.
testInvalidTokenManipulationNeverThrows(accepted) == FALSE
testInvalidTokenManipulationThrows(accepted) == accepted > 0

\* The loop over the tokens has ended.
InvalidTokenDone ==
    /\ Running(9)
    /\ loc.attempts = invalidTokens
    /\ FinishTest(9, testInvalidTokenManipulationThrows(loc.successful), <<>>)
    /\ UNCHANGED <<cfg, client, signCalls, started, loc, summary, verdict,
                   fmtVars, signVars, paceVars, earlier>>

\* await new Promise(resolve => setTimeout(resolve, 2000)) after every test.
HalvedSettlingDelay == 2000 \div 2
settlingDelay == 2000

\* The delay after a test has elapsed: the clock has advanced by it at
\* least (the tests themselves are given no duration); the loop goes on or
\* ends.
SettlingDelay ==
    /\ pc = "settling"
    /\ now' = now + settlingDelay
    /\ pc' = IF Len(started) = NumTests THEN "summarize" ELSE "loop"
    /\ UNCHANGED <<cfg, client, signCalls, testResults, vulnerabilities, results,
                   criticalVulnerabilities, started, executing, thrown, loc, summary, verdict,
                   fmtVars, signVars, calls, fan, earlier>>

CountWhere(seq, P(_)) == Cardinality({k \in 1..Len(seq) : P(seq[k])})

\* The summary object.  Its vulnerabilities field is this.vulnerabilities
\* itself, the array and not a copy: what a holder of the summary reads there
\* is the variable vulnerabilities; foundWhenBuilt keeps what the array held
\* when the summary was built.
BuildSummary(rs, critical) ==
    [total |-> Len(rs),
     passed |-> CountWhere(rs, LAMBDA r : r.success),
     failed |-> CountWhere(rs, LAMBDA r : ~r.success),
     critical |-> critical,
     foundWhenBuilt |-> vulnerabilities]
\* summary.vulnerabilities, read by whoever holds a summary of this tester.
SummaryVulnerabilities == vulnerabilities

\* The closing entry runAllSecurityTests logs.
ClosingEntry(s) ==
    IF s.failed = 0 THEN Entry("success", "info", "closing")
    ELSE IF s.critical = 0 THEN Entry("warning", "info", "closing")
    ELSE Entry("critical", "info", "closing")

Summarize ==
    /\ pc = "summarize"
    /\ summary' = BuildSummary(results, criticalVulnerabilities)
    /\ LogAll(<<Entry("security", "info", "summary"), ClosingEntry(summary')>>)
    /\ pc' = "returned"
    /\ UNCHANGED <<cfg, client, signCalls, results, criticalVulnerabilities, started,
                   executing, thrown, loc, verdict, fmtVars, signVars, paceVars, earlier>>

OrchNext ==
    \/ RunAllStart \/ BeginTest
    \/ SignatureValidation \/ SignatureReplay \/ SignatureMalleability
    \/ RateLimitResponse \/ RateLimitDone
    \/ ResourceExhaustion \/ UnauthorizedAccess
    \/ PrivilegeProbe \/ PrivilegeDone
    \/ DoubleSpendResponse \/ DoubleSpendDone
    \/ InvalidTokenProbe \/ InvalidTokenDone
    \/ SettlingDelay \/ Summarize

(***************************************************************************)
(* The security runner (security-test-runner.js) and config.js              *)
(***************************************************************************)
\* config.wallet: each field as the environment gave it, "" when unset.
Configs ==
    [privateKey : {"", "walletKey", "malformedKey"}, publicKey : {"", "set"},
     address : {"", "set"}, rateLimitDelay : {""}]
\* No variable of the environment is set.
UnsetConfig == [privateKey |-> "", publicKey |-> "", address |-> "", rateLimitDelay |-> ""]

\* validateConfig(): TRUE when it returns, FALSE when it throws
\* 'Missing required configuration'.
validateConfig(c) == c.privateKey # "" /\ c.publicKey # "" /\ c.address # ""

NoVerdict == [status |-> "none", exitCode |-> -1, configWarnings |-> 0, signal |-> "none",
              report |-> [total |-> 0, critical |-> 0, warnings |-> 0, passed |-> 0]]

\* What the runner does with validateConfig's outcome: the inner try/catch
\* prints a warning and goes on.
AfterValidateConfigFatal(valid) ==
    IF valid THEN [pc |-> "configChecked", verdict |-> NoVerdict]
    ELSE [pc |-> "exited", verdict |-> [NoVerdict EXCEPT !.exitCode = 3, !.configWarnings = 1]]
AfterValidateConfig(valid) ==
    [pc |-> "configChecked",
     verdict |-> [NoVerdict EXCEPT !.configWarnings = IF valid THEN 0 ELSE 1]]

ValidateConfig ==
    /\ pc = "boot"
    /\ LET next == AfterValidateConfig(validateConfig(cfg))
       IN  pc' = next.pc /\ verdict' = next.verdict
    /\ UNCHANGED <<cfg, client, signCalls, testResults, vulnerabilities, results,
                   criticalVulnerabilities, started, executing, thrown, loc, summary,
                   fmtVars, signVars, paceVars, earlier>>

\* new GalaBridgeClient(config.wallet.privateKey || 'a'.repeat(64), ...) and
\* new BridgeSecurityTester(client).
InitClient ==
    /\ pc = "configChecked"
    /\ client' = LiveClient(IF cfg.privateKey = "" THEN "fallbackKey" ELSE cfg.privateKey)
    /\ testResults' = <<>>
    /\ vulnerabilities' = <<>>
    /\ pc' = "constructed"
    /\ UNCHANGED <<cfg, signCalls, results, criticalVulnerabilities, started, executing, thrown,
                   loc, summary, verdict, fmtVars, signVars, paceVars, earlier>>

\* The FINAL SECURITY ASSESSMENT line.
SecurityStatus(s) ==
    IF s.critical = 0 /\ s.failed = 0 THEN "EXCELLENT"
    ELSE IF s.critical = 0 THEN "GOOD_WITH_WARNINGS"
    ELSE "CRITICAL"

\* process.exit(securitySummary.critical > 0 ? 2 : securitySummary.failed > 0 ? 1 : 0)
ExitCodeFailedOnly(s) == IF s.failed > 0 THEN 1 ELSE 0
ExitCodeErrorOnFailure(s) == IF s.failed > 0 THEN 3 ELSE 0
ExitCode(s) == IF s.critical > 0 THEN 2 ELSE IF s.failed > 0 THEN 1 ELSE 0

\* getSecurityReport().summary
getSecurityReport ==
    [total |-> Len(testResults),
     critical |-> CountWhere(testResults, LAMBDA e : e.severity = "high"),
     warnings |-> CountWhere(testResults, LAMBDA e : e.type = "warning"),
     passed |-> CountWhere(testResults, LAMBDA e : e.type = "success")]

\* runAllSecurityTests has returned: the assessment, the report, the exit.
Assess ==
    /\ pc = "returned"
    /\ verdict' = [verdict EXCEPT !.status = SecurityStatus(summary),
                                  !.report = getSecurityReport,
                                  !.exitCode = ExitCode(summary)]
    /\ pc' = "exited"
    /\ UNCHANGED <<cfg, client, signCalls, testResults, vulnerabilities, results,
                   criticalVulnerabilities, started, executing, thrown, loc, summary,
                   fmtVars, signVars, paceVars, earlier>>

\* process.on('SIGINT' / 'SIGTERM'): the handler prints and exits at once.
\* A signal is delivered when the event loop is idle: while the call of a
\* test is awaiting its timer or its response, or during the delay between
\* two tests.
SignalExitCode == 130
Signals == {"SIGINT", "SIGTERM"}
AwaitingTimer ==
    \/ pc = "settling"
    \/ pc = "intest" /\ \E i \in executing : i >= 4
Signal ==
    /\ AwaitingTimer
    /\ \E sig \in Signals :
        verdict' = [verdict EXCEPT !.signal = sig, !.exitCode = SignalExitCode]
    /\ pc' = "exited"
    /\ UNCHANGED <<cfg, client, signCalls, testResults, vulnerabilities, results,
                   criticalVulnerabilities, started, executing, thrown, loc, summary,
                   fmtVars, signVars, paceVars, earlier>>

RunIdle ==
    /\ signCalls = 0
    /\ testResults = <<>>
    /\ vulnerabilities = <<>>
    /\ results = <<>>
    /\ criticalVulnerabilities = 0
    /\ started = <<>>
    /\ executing = {}
    /\ loc = NoLocals
    /\ thrown = <<>>
    /\ summary = BuildSummary(<<>>, 0)
    /\ verdict = NoVerdict
    /\ earlier = <<>>

RunOff == pc = "off" /\ cfg = UnsetConfig
            /\ client = LiveClient("fallbackKey") /\ RunIdle

\* The runner process starts on whatever the environment configured.
RunnerStart == pc = "boot" /\ cfg \in Configs /\ client = LiveClient("fallbackKey") /\ RunIdle
\* The substitutes with a fixed behaviour: the scripted ones (the demo's mock
\* among them), the one with a request window, the deduplicating one.
CannedOutcomes == {"ok", "403", "413"}
Substitutes ==
    {CannedClient(m, sc) : m \in SubstituteSigners, sc \in [CallClasses -> CannedOutcomes]}
        \cup {WindowClient(m) : m \in SubstituteSigners}
        \cup {DedupClient(m) : m \in SubstituteSigners}
        \cup {WhitelistClient(m) : m \in SubstituteSigners}
\* A tester has been constructed on one of them.
SubstituteStart ==
    /\ pc = "constructed" /\ cfg \in {UnsetConfig}
    /\ client \in Substitutes /\ RunIdle

\* A tester has been constructed on some client, live or substitute.
OrchStart == pc = "constructed" /\ cfg \in {UnsetConfig}
                /\ client \in Clients /\ RunIdle

(***************************************************************************)
(* The fan-out of testRateLimiting and testDoubleSpending, call by call     *)
(***************************************************************************)
\* Bound: the calls of the fan-out followed one by one.
FanOutCalls == 3
FanKinds == {"rateLimiting", "doubleSpending"}
\* What the calls come back with: a result, a result with an error field, a
\* thrown Error.
FanAnswers == {"ok", "okError", "429"}
\* The fan-out is made: call i will come back with answers[i]; results is
\* the array Promise.all resolves to, filled by index as the calls settle,
\* arrival the order in which they settle.
FanStart ==
    fan \in {[NoFan EXCEPT !.kind = k, !.answers = a,
                          !.results = [i \in 1..FanOutCalls |-> "pending"]] :
                k \in FanKinds, a \in [1..FanOutCalls -> FanAnswers]}

\* Call i settles: its promise, with its .then/.catch, takes its place in
\* the array.
FanSettle(i) ==
    /\ fan.kind # "none"
    /\ fan.results[i] = "pending"
    /\ fan' = [fan EXCEPT !.results[i] = fan.answers[i], !.arrival = Append(@, i)]
    /\ UNCHANGED <<now, calls, fmtVars, signVars, runVars>>

\* results.filter(r => r.success).length of testRateLimiting, where success
\* is the promise having been fulfilled; results.filter(r => r && !r.error)
\* .length of testDoubleSpending.
FanCounts(f, r) == IF f.kind = "rateLimiting" THEN ~IsError(r) ELSE r = "ok"
FanSuccessfulUntilFailure(f) ==
    Cardinality({n \in 1..Len(f.arrival) :
                    \A m \in 1..n : FanCounts(f, f.results[f.arrival[m]])})
FanSuccessful(f) ==
    Cardinality({i \in DOMAIN f.results : FanCounts(f, f.results[i])})

\* await Promise.all has resumed, every call settled: the count is judged.
FanJudge ==
    /\ fan.kind # "none" /\ ~fan.judged
    /\ \A i \in DOMAIN fan.results : fan.results[i] # "pending"
    /\ fan' = [fan EXCEPT !.judged = TRUE,
                          !.threw = IF fan.kind = "rateLimiting"
                                    THEN testRateLimitingThrows(FanSuccessful(fan), FanOutCalls)
                                    ELSE testDoubleSpendingThrows(FanSuccessful(fan))]
    /\ UNCHANGED <<now, calls, fmtVars, signVars, runVars>>

FanNext == FanJudge \/ \E i \in 1..FanOutCalls : FanSettle(i)

(***************************************************************************)
(* runSecurityDemo (security-demo.js): the tests one by one on the mock     *)
(***************************************************************************)
\* The tests the demo calls, in its order, by their number in the catalogue:
\* all but testUnauthorizedAccess.
DemoTests == <<1, 2, 3, 4, 5, 7, 8, 9>>
\* mockClient: signRequest returns 'a'.repeat(128); makeRequest throws 403 on
\* admin/ and 413 on a large payload and returns a result otherwise.
DemoClient == CannedClient("constant", DemoScript)
DemoStart == pc = "demo" /\ cfg = UnsetConfig /\ client = DemoClient /\ RunIdle

\* test() of the next entry is called: the tester's method runs
\* runSecurityTest, which logs the start and calls testFunction.
DemoBeginTest ==
    /\ pc = "demo"
    /\ Len(started) < Len(DemoTests)
    /\ LET i == DemoTests[Len(started) + 1]
       IN  /\ started' = Append(started, i)
           /\ executing' = executing \cup {i}
           /\ loc' = [NoLocals EXCEPT !.inFlight = loc.inFlight + FanOut(i)]
    /\ LogAll(<<Entry("security", "info", "start")>>)
    /\ pc' = "intest"
    /\ UNCHANGED <<cfg, client, signCalls, results, criticalVulnerabilities, thrown,
                   summary, verdict, fmtVars, signVars, paceVars, earlier>>

\* The 500 ms delay after a test has elapsed; the loop goes on or ends.
DemoDelay ==
    /\ pc = "settling"
    /\ pc' = IF Len(started) = Len(DemoTests) THEN "demoDone" ELSE "demo"
    /\ UNCHANGED <<cfg, client, signCalls, testResults, vulnerabilities, results,
                   criticalVulnerabilities, started, executing, thrown, loc, summary, verdict,
                   fmtVars, signVars, paceVars, earlier>>

\* The demo is run again, a new process with a new mock and a new tester;
\* earlier keeps the outcomes of the run before.
DemoAgain ==
    /\ pc = "demoDone"
    /\ Len(earlier) < MaxRuns - 1
    /\ earlier' = Append(earlier, [results |-> results, summary |-> summary])
    /\ signCalls' = 0
    /\ testResults' = <<>>
    /\ vulnerabilities' = <<>>
    /\ results' = <<>>
    /\ criticalVulnerabilities' = 0
    /\ started' = <<>>
    /\ thrown' = <<>>
    /\ loc' = NoLocals
    /\ pc' = "demo"
    /\ UNCHANGED <<cfg, client, executing, summary, verdict, fmtVars, signVars, paceVars>>

DemoNext ==
    \/ DemoBeginTest
    \/ SignatureValidation \/ SignatureReplay \/ SignatureMalleability
    \/ RateLimitResponse \/ RateLimitDone
    \/ ResourceExhaustion
    \/ PrivilegeProbe \/ PrivilegeDone
    \/ DoubleSpendResponse \/ DoubleSpendDone
    \/ InvalidTokenProbe \/ InvalidTokenDone
    \/ DemoDelay \/ DemoAgain

(***************************************************************************)
(* The bridge testing bot (index.js)                                        *)
(***************************************************************************)
\* Bound: the tests one runAllTests call of the BridgeTester runs.
MaxBotTests == 3
\* process.exit(0) of the bot's SIGINT and SIGTERM handlers.
BotSignalExitCode == 0

\* The bot process starts on whatever the environment configured.
BotStart == pc = "botBoot" /\ cfg \in Configs /\ client = LiveClient("fallbackKey") /\ RunIdle

\* main: validateConfig(); a throw goes to the catch of main, which prints
\* the setup instructions and exits with 1; otherwise the client and the
\* tester are constructed and runAllTests is called.
BotValidateConfig ==
    /\ pc = "botBoot"
    /\ IF validateConfig(cfg)
       THEN /\ client' = LiveClient(cfg.privateKey)
            /\ pc' = "botRunning"
            /\ UNCHANGED verdict
       ELSE /\ verdict' = [verdict EXCEPT !.exitCode = 1]
            /\ pc' = "exited"
            /\ UNCHANGED client
    /\ UNCHANGED <<cfg, signCalls, testResults, vulnerabilities, results,
                   criticalVulnerabilities, started, executing, thrown, loc, summary,
                   fmtVars, signVars, paceVars, earlier>>

\* runAllTests: one more test has come back, passed or failed.
BotTestDone ==
    /\ pc = "botRunning"
    /\ Len(results) < MaxBotTests
    /\ \E ok \in BOOLEAN :
        results' = Append(results, [success |-> ok, severity |-> "none"])
    /\ started' = Append(started, Len(started) + 1)
    /\ UNCHANGED <<pc, cfg, client, signCalls, testResults, vulnerabilities,
                   criticalVulnerabilities, executing, thrown, loc, summary, verdict,
                   fmtVars, signVars, paceVars, earlier>>

\* runAllTests has returned its summary: process.exit(summary.failed > 0 ? 1 : 0).
BotExit ==
    /\ pc = "botRunning"
    /\ Len(results) = MaxBotTests
    /\ summary' = BuildSummary(results, 0)
    /\ verdict' = [verdict EXCEPT !.exitCode = IF summary'.failed > 0 THEN 1 ELSE 0]
    /\ pc' = "exited"
    /\ UNCHANGED <<cfg, client, signCalls, testResults, vulnerabilities, results,
                   criticalVulnerabilities, started, executing, thrown, loc,
                   fmtVars, signVars, paceVars, earlier>>

\* process.on('SIGINT' / 'SIGTERM') of the bot: the handler prints and exits
\* at once, while runAllTests is awaiting a call.
BotSignal ==
    /\ pc = "botRunning"
    /\ \E sig \in Signals :
        verdict' = [verdict EXCEPT !.signal = sig, !.exitCode = BotSignalExitCode]
    /\ pc' = "exited"
    /\ UNCHANGED <<cfg, client, signCalls, testResults, vulnerabilities, results,
                   criticalVulnerabilities, started, executing, thrown, loc, summary,
                   fmtVars, signVars, paceVars, earlier>>

BotNext == BotValidateConfig \/ BotTestDone \/ BotExit \/ BotSignal

(***************************************************************************)
(* Specifications                                                           *)
(***************************************************************************)
\* The client of the pacing scenario holds the wallet key or a malformed one,
\* under either setting of RATE_LIMIT_DELAY.
PaceClient ==
    /\ signAuth \in {GalaAuth(k, 1, "wallet") : k \in {"walletKey", "malformedKey"}}
    /\ signLog = <<>>
PaceConfig ==
    /\ pc = "off" /\ cfg \in {[UnsetConfig EXCEPT !.rateLimitDelay = e] : e \in RateLimitDelayEnv}
    /\ client = LiveClient("fallbackKey") /\ RunIdle
InitPacing == PaceStart /\ FmtOff /\ PaceClient /\ PaceConfig
SpecPacing == InitPacing /\ [][PaceNext]_vars
InitFanOut == FanStart /\ now = 0 /\ calls = <<>> /\ FmtOff /\ SignOff /\ RunOff
SpecFanOut == InitFanOut /\ [][FanNext]_vars
InitBot == BotStart /\ FmtOff /\ SignOff /\ PaceOff
SpecBot == InitBot /\ [][BotNext]_vars
InitDemo == DemoStart /\ FmtOff /\ SignOff /\ PaceOff
SpecDemo == InitDemo /\ [][DemoNext]_vars
InitSigner == SignStart /\ FmtOff /\ PaceOff /\ RunOff
SpecSigner == InitSigner /\ [][SignNext]_vars
InitFormat == FmtStart /\ SignOff /\ PaceOff /\ RunOff
SpecFormat == InitFormat /\ [][CheckFormat]_vars
InitOrch == OrchStart /\ FmtOff /\ SignOff /\ PaceOff
OrchCallerNext == OrchNext \/ Assess
SpecOrch == InitOrch /\ [][OrchCallerNext]_vars
InitSubstitute == SubstituteStart /\ FmtOff /\ SignOff /\ PaceOff
SubstituteNext == OrchNext \/ RunAllAgain
SpecSubstitute == InitSubstitute /\ [][SubstituteNext]_vars
Init == RunnerStart /\ FmtOff /\ SignOff /\ PaceOff
Next == ValidateConfig \/ InitClient \/ OrchNext \/ Assess \/ Signal
Spec == Init /\ [][Next]_vars

(***************************************************************************)
(* Properties                                                               *)
(***************************************************************************)
SignedPairs == {<<i, j>> \in (1..Len(signLog)) \X (1..Len(signLog)) : i < j}

\* C1: two successive sign operations on the same payload and chain id, with
\* the same credential, return two different signatures.
C1_RepeatedSignDiffers ==
    \A i \in 1..(Len(signLog) - 1) :
        (/\ signLog[i].payload = signLog[i + 1].payload
         /\ signLog[i].chain = signLog[i + 1].chain
         /\ ~signLog[i].out.threw /\ ~signLog[i + 1].out.threw)
            => signLog[i].out.value # signLog[i + 1].out.value

C3_VariantsRejected ==
    (fmtOut.done /\ fmtOut.accepted)
        => /\ \A v \in fmtOut.variants : ~v.accepted
           /\ ~fmtOut.malleable

\* C4: the format check accepts exactly the strings of 128 characters drawn
\* from 0-9, a-f, A-F, and nothing that is not a string.
HexAlphabet ==
    {"0", "1", "2", "3", "4", "5", "6", "7", "8", "9",
     "a", "b", "c", "d", "e", "f", "A", "B", "C", "D", "E", "F"}
WellFormedSignature(v) ==
    /\ v.t = "string"
    /\ Len(v.s) = 128
    /\ \A i \in 1..Len(v.s) : v.s[i] \in HexAlphabet
C4_FormatCheckExact ==
    fmtOut.done =>
        /\ fmtOut.accepted <=> WellFormedSignature(fmtIn)
        /\ fmtIn \in {JsString(<<>>), JsString(HexPrefix), JsString(InvalidSignatureText)}
                => ~fmtOut.accepted
        /\ (fmtIn.t = "string" /\ Len(fmtIn.s) \in {127, 129}) => ~fmtOut.accepted
C4_Witness ==
    /\ fmtOut.done /\ fmtOut.accepted
    /\ \E i \in 1..Len(fmtIn.s) : fmtIn.s[i] = "F"
    /\ \E i \in 1..Len(fmtIn.s) : fmtIn.s[i] = "9"

\* C5: any two dispatches of one client are at least the pacing interval
\* (500 ms) apart.
C5_DispatchesSpaced ==
    \A i, j \in DOMAIN calls :
        (i # j /\ calls[i].st \in {"dispatched", "settled"}
               /\ calls[j].st \in {"dispatched", "settled"})
            => \/ calls[i].at - calls[j].at >= 500
               \/ calls[j].at - calls[i].at >= 500

\* C6: runAllSecurityTests produces exactly one outcome per test whatever the
\* test functions do, a test function that threw gives success = false, and
\* the run returns only with all nine outcomes.
C6_IsolatedOutcomes ==
    /\ Len(results) = Len(thrown)
    /\ Len(results) = Len(started) - Cardinality(executing)
    /\ \A k \in 1..Len(results) : thrown[k] => ~results[k].success
    /\ pc \in {"summarize", "returned", "exited"} => Len(results) = 9
C6_Witness ==
    /\ pc = "returned"
    /\ Len(results) = 9
    /\ thrown[1] /\ ~results[1].success
    /\ ~thrown[9] /\ results[9].success

\* C7: the tests start in the catalogue order with the catalogue severities,
\* and a test starts only when every earlier one has produced its outcome.
ClaimedOrder ==
    << <<"Signature Validation", "high">>, <<"Signature Replay Protection", "high">>,
       <<"Signature Malleability", "high">>, <<"Rate Limiting Protection", "medium">>,
       <<"Resource Exhaustion Protection", "medium">>,
       <<"Unauthorized Access Protection", "high">>,
       <<"Privilege Escalation Protection", "high">>,
       <<"Double Spending Protection", "high">>,
       <<"Invalid Token Manipulation", "medium">> >>
FailedTests == {k \in 1..Len(thrown) : thrown[k]}
C8_SummaryCounts ==
    pc \in {"returned", "exited"} =>
        /\ summary.failed = Cardinality({k \in 1..Len(results) : ~results[k].success})
        /\ summary.failed = Cardinality(FailedTests)
        /\ summary.passed = Cardinality({k \in 1..Len(results) : results[k].success})
        /\ summary.critical =
                Cardinality({k \in FailedTests : ClaimedOrder[k][2] = "high"})
        /\ summary.total = summary.passed + summary.failed
        /\ summary.total = 9
        /\ summary.critical <= summary.failed
C8_Witness ==
    /\ pc = "returned"
    /\ summary.failed = 3 /\ summary.critical = 1 /\ summary.passed = 6

\* C9: the caller's assessment of a summary is EXCELLENT with exit code 0 iff
\* critical = 0 and failed = 0, GOOD_WITH_WARNINGS with 1 iff critical = 0 and
\* failed > 0, CRITICAL with 2 iff critical > 0.
C9_StatusAndExitCode ==
    pc = "exited" =>
        /\ (verdict.status = "EXCELLENT" /\ verdict.exitCode = 0)
                <=> (summary.critical = 0 /\ summary.failed = 0)
        /\ (verdict.status = "GOOD_WITH_WARNINGS" /\ verdict.exitCode = 1)
                <=> (summary.critical = 0 /\ summary.failed > 0)
        /\ (verdict.status = "CRITICAL" /\ verdict.exitCode = 2)
                <=> summary.critical > 0
        /\ verdict.status \in {"EXCELLENT", "GOOD_WITH_WARNINGS", "CRITICAL"}
        /\ verdict.exitCode \in {0, 1, 2}
C9_Witness ==
    /\ pc = "exited"
    /\ summary.critical = 0 /\ summary.failed = 2
    /\ verdict.status = "GOOD_WITH_WARNINGS" /\ verdict.exitCode = 1

C11_NoExitMidTest ==
    pc = "exited" => (executing = {} /\ Len(results) = Len(started))

\* C12: when all the calls of a network-using test (tests 4 to 9) fail with a
\* transport error, the test's outcome has success = false.
C12_TransportFailureFails ==
    (pc = "settling" /\ Len(results) >= 4 /\ loc.attempts > 0 /\ loc.transportOnly) =>
        ~results[Len(results)].success

\* C13: constructed with a substitute client, the tester makes every remote
\* call of every test through that client.
C13_CallsThroughInjectedClient ==
    client.kind = "substitute" => loc.via \subseteq {client}

\* C14: two successive runAllSecurityTests calls on one tester against the
\* same substitute with fixed canned responses give, test by test and in the
\* same order, identical success values.
C14_RerunSameSuccess ==
    (client.policy = "canned" /\ Len(earlier) > 0) =>
        \A k \in 1..Len(results) :
            results[k].success = earlier[Len(earlier)].results[k].success

\* C15: the findings sequence lists the findings of the failed tests in
\* catalogue order, whatever their severities: a finding for test i precedes
\* a finding for test j only if i comes before j; every failed test has its
\* finding.
TestFindings == SelectSeq(vulnerabilities, LAMBDA e : e.test > 0)
C15_FindingsInCatalogueOrder ==
    /\ \A a, b \in 1..Len(TestFindings) :
            a < b => TestFindings[a].test < TestFindings[b].test
    /\ \A k \in 1..Len(results) :
            ~results[k].success => \E a \in 1..Len(TestFindings) : TestFindings[a].test = k
C15_Witness ==
    /\ pc = "returned"
    /\ \E a, b \in 1..Len(TestFindings) :
            /\ a < b
            /\ TestFindings[a].severity = "medium"
            /\ TestFindings[b].severity = "high"

\* C16: once the summary has been built nothing changes it: what its holder
\* reads as its findings sequence is what the sequence was when it was built.
C16_SummaryReadOnly ==
    pc \in {"returned", "exited"} => SummaryVulnerabilities = summary.foundWhenBuilt

\* C17: against a substitute that serves at most 20 calls of a window, the
\* rate limiting test counts at most 20 of its 25 calls successful, fewer
\* than 25, and passes.
C17_BurstAgainstWindow ==
    client.policy = "window" =>
        /\ (pc \in {"intest", "settling"} /\ Len(started) = 4) =>
                (loc.successful <= WindowCap /\ loc.successful < rapidRequestCount)
        /\ Len(results) >= 4 => results[4].success
C17_Witness ==
    /\ client.policy = "window"
    /\ pc = "settling" /\ Len(results) = 4
    /\ loc.attempts = 25 /\ loc.successful = 20 /\ loc.rateLimited = 5
    /\ results[4].success

\* C18: against a substitute that deduplicates identical submissions exactly
\* one of the five bridge requests of the double spending test is counted
\* successful; and the test passes iff at most one request succeeded.
C18_DoubleSpendAgainstDedup ==
    /\ (client.policy = "dedup" /\ pc \in {"intest", "settling"} /\ Len(started) = 8) =>
            /\ loc.successful <= 1
            /\ loc.attempts >= 1 => loc.successful = 1
    /\ (pc = "settling" /\ Len(results) = 8) =>
            /\ loc.attempts = 5
            /\ results[8].success <=> loc.successful <= 1
C18_Witness ==
    /\ client.policy = "dedup"
    /\ pc = "settling" /\ Len(results) = 8
    /\ loc.attempts = 5 /\ loc.successful = 1
    /\ results[8].success

\* C19: the bridge requests of the double spending test are identical as
\* delivered: any two of the bodies handed to fetch agree in every field.
C19_DuplicateBodiesIdentical ==
    (pc \in {"intest", "settling"} /\ Len(started) = 8) =>
        \A a, b \in 1..Len(loc.sent) : loc.sent[a] = loc.sent[b]

\* C20: no call is retried: a makeRequest call, made directly or through a
\* wrapper, calls fetch at most once, whatever comes back; and a test makes
\* the calls of its body once each, whatever they come back with.
CallsOfTest == <<0, 0, 0, rapidRequestCount, 1, 1, adminEndpoints, duplicateRequests, invalidTokens>>
C20_NoRetry ==
    /\ \A i \in DOMAIN calls :
            /\ calls[i].fetches <= 1
            /\ (calls[i].st = "settled" /\ calls[i].outcome # "signing") => calls[i].fetches = 1
    /\ (pc = "settling" /\ Len(results) >= 1) => loc.attempts = CallsOfTest[Len(results)]
C20_Witness ==
    \E i, j \in DOMAIN calls :
        /\ calls[i].st = "settled" /\ calls[i].outcome = "transport" /\ calls[i].fetches = 1
        /\ calls[i].entry = "requestBridge"
        /\ calls[j].st = "settled" /\ calls[j].outcome \in StatusOutcomes /\ calls[j].fetches = 1

\* C21: the rate limiting and the double spending test read their counts
\* only when every call of the fan-out has settled, and no call a test
\* launched is in flight when the test produces its outcome or when the next
\* test starts, also when calls of the fan-out fail.
C21_FanOutAwaited ==
    /\ loc.inFlight > 0 => (pc = "intest" /\ (executing = {4} \/ executing = {8}))
    /\ (pc = "settling" /\ Len(results) \in {4, 8}) =>
            (loc.inFlight = 0 /\ loc.attempts = FanOut(Len(results)))
C21_Witness ==
    /\ pc = "settling" /\ Len(results) = 8
    /\ loc.attempts = 5 /\ loc.successful = 2 /\ ~loc.transportOnly /\ loc.inFlight = 0
    /\ ~results[4].success

\* C24 (signer): a sign operation with absent or malformed private key
\* material never returns a signature, it raises.
C24_MalformedKeyNeverSigns ==
    ~WellFormedKey(signAuth.privateKey) =>
        \A i \in 1..Len(signLog) : signLog[i].out.threw

C26_DelayIsConfigured ==
    \A i \in DOMAIN calls :
        calls[i].st # "idle" =>
            calls[i].due - calls[i].issued = configRateLimitDelay(cfg.rateLimitDelay)

\* C27: once a call of the client has been answered 429, every call made
\* afterwards waits longer than the base interval.
C27_BacksOffAfter429 ==
    \A i \in DOMAIN calls :
        (calls[i].st # "idle" /\ calls[i].after429) =>
            calls[i].due - calls[i].issued > rateLimitDelay

\* C23: the counts of getSecurityReport().summary agree with the run: total
\* is the number of tests executed, passed the number of outcomes that are a
\* success, critical the number of failed tests of high severity.
C23_ReportAgreesWithRun ==
    pc = "returned" =>
        /\ getSecurityReport.total = Len(results)
        /\ getSecurityReport.passed = CountWhere(results, LAMBDA r : r.success)
        /\ getSecurityReport.critical =
                CountWhere(results, LAMBDA r : ~r.success /\ r.severity = "high")

\* C25: in the demo, run on its mock, the tests that pass are exactly
\* signature validation, resource exhaustion and privilege escalation; every
\* other test the demo runs fails; a second run gives the same outcomes.
DemoPassing == {1, 5, 7}
C25_DemoOutcomes ==
    /\ \A k \in 1..Len(results) : results[k].success <=> started[k] \in DemoPassing
    /\ \A n \in 1..Len(earlier) : \A k \in 1..Len(results) :
            results[k] = earlier[n].results[k]
    /\ pc = "demoDone" =>
            /\ Len(results) = Len(DemoTests)
            /\ {started[k] : k \in {j \in 1..Len(results) : results[j].success}} = DemoPassing
C25_Witness ==
    /\ pc = "demoDone" /\ Len(earlier) = MaxRuns - 1
    /\ Len(results) = Len(DemoTests) /\ results[5].success /\ ~results[8].success

\* C28: the unauthorized access test passes whenever the bridge request made
\* with the invalid credential is rejected, whatever the rejection says, and
\* fails whenever it is accepted.
C28_AnyRejectionPasses ==
    (pc = "settling" /\ Len(results) = 6) =>
        (results[6].success <=> loc.last # "ok")

\* C29: the resource exhaustion test passes exactly when the oversized call
\* is rejected with a message holding '413' or 'payload too large'; it fails
\* when the payload is accepted and when the call fails in any other way.
C29_SizeLimitOnly ==
    (pc = "settling" /\ Len(results) = 5) =>
        /\ results[5].success <=> loc.last \in {"413", "payload too large"}
        /\ loc.last \in {"ok", "okError"} => ~results[5].success
        /\ loc.attempts = 1
C29_Witness ==
    /\ pc = "settling" /\ Len(results) = 5
    /\ loc.last = "payload too large" /\ results[5].success

\* C30: the privilege escalation test probes all five admin endpoints, also
\* after one of them returned a result without an error field, and passes
\* exactly when none of the five did.
C30_AllEndpointsProbed ==
    /\ (Running(7) /\ loc.attempts < adminEndpoints) => Len(results) = 6
    /\ (pc = "settling" /\ Len(results) = 7) =>
            /\ loc.attempts = adminEndpoints
            /\ results[7].success <=> loc.successful = 0
C30_Witness ==
    /\ pc = "settling" /\ Len(results) = 7
    /\ loc.attempts = adminEndpoints /\ loc.successful = 1
    /\ ~results[7].success

\* C31: the invalid token test submits all five invalid tokens and passes
\* exactly when none of them is accepted; against a substitute that accepts
\* only a whitelisted collection with category Unit and type none, the token
\* with the empty collection is refused and the test passes.
C31_InvalidTokensRefused ==
    /\ Len(InvalidTokenList) = invalidTokens
    /\ (Running(9) /\ loc.attempts < invalidTokens) => Len(results) = 8
    /\ (pc = "settling" /\ Len(results) = 9) =>
            /\ loc.attempts = invalidTokens
            /\ results[9].success <=> loc.successful = 0
    /\ client.policy = "whitelist" =>
            /\ (Running(9) /\ loc.attempts >= 1) => loc.successful = 0
            /\ Len(results) >= 9 => results[9].success
C31_Witness ==
    /\ client.policy = "whitelist"
    /\ pc = "settling" /\ Len(results) = 9
    /\ loc.attempts = invalidTokens /\ results[9].success

\* C32: between the end of a test and the start of the next runAll waits the
\* settling delay of 2000 ms: the k-th test starts, and makes its calls, no
\* earlier than k - 1 delays after the run began and only when every test
\* before it has produced its outcome.
C32_SettlingDelayBetweenTests ==
    /\ Len(started) >= 1 => now >= 2000 * (Len(started) - 1)
    /\ pc = "intest" => (Len(results) = Len(started) - 1 /\ loc.attempts <= CallsOfTest[Len(started)])
    /\ pc = "loop" => (Len(results) = Len(started) /\ now = 2000 * Len(results))
C32_Witness ==
    /\ pc = "intest" /\ Len(started) = 7 /\ loc.attempts = 1
    /\ now = 6 * 2000

\* C33: the outcome of the rate limiting test and of the double spending
\* test depends only on how many calls of the fan-out succeed: with the same
\* result per call, every order of arrival gives the same outcome.
FanOks(kind) ==
    Cardinality({i \in DOMAIN fan.answers :
                    fan.answers[i] = "ok" \/ (kind = "rateLimiting" /\ fan.answers[i] = "okError")})
C33_ArrivalOrderIrrelevant ==
    fan.judged =>
        /\ fan.kind = "rateLimiting" => (fan.threw <=> FanOks(fan.kind) = FanOutCalls)
        /\ fan.kind = "doubleSpending" => (fan.threw <=> FanOks(fan.kind) > 1)
C33_Witness ==
    /\ fan.judged /\ fan.kind = "doubleSpending" /\ fan.threw
    /\ fan.arrival[1] # 1 /\ fan.answers[fan.arrival[1]] = "429"
    /\ FanOks(fan.kind) = 2

\* C34: the runner exits with code 3 only when no test has executed: once a
\* test has run, a run that is not interrupted exits with 0, 1 or 2.
C34_ErrorExitOnlyBeforeTests ==
    pc = "exited" =>
        /\ verdict.exitCode = 3 => started = <<>>
        /\ (started # <<>> /\ verdict.signal = "none") => verdict.exitCode \in {0, 1, 2}
C34_Witness ==
    /\ pc = "exited" /\ verdict.signal = "none"
    /\ Len(started) = NumTests /\ summary.critical > 0
    /\ verdict.exitCode = 2

\* C35: the credential a GalaAuth holds (private key, public key, wallet
\* address) is never modified after construction: no signRequest, no
\* prepareRequestBody, no call, no test and no run changes a field of it.
C35_CredentialImmutable ==
    [][/\ signAuth' = signAuth
       /\ pc \notin {"boot", "configChecked"} => client'.auth = client.auth]_vars
C35_Witness ==
    \E i \in DOMAIN calls :
        /\ calls[i].st = "settled" /\ calls[i].hasData /\ calls[i].fetches = 1
        /\ signAuth = GalaAuth("walletKey", 1, "wallet")
        /\ calls[i].sent.wallet = signAuth.walletAddress

\* C36: after runAllSecurityTests has completed, this.vulnerabilities holds
\* exactly one entry for each failed test and no other entry: its length is
\* the failed count of the summary and each entry has the severity of the
\* test that failed.
C36_FindingsAreFailedTests ==
    (pc = "returned" /\ earlier = <<>>) =>
        /\ Len(vulnerabilities) = summary.failed
        /\ \A k \in 1..Len(vulnerabilities) :
                /\ vulnerabilities[k].test \in 1..NumTests
                /\ ~results[vulnerabilities[k].test].success
                /\ vulnerabilities[k].severity = Catalogue[vulnerabilities[k].test].severity

\* C37: when runAllSecurityTests is called a second time on the same tester,
\* the findings and the report counts after it reflect the tests of the
\* second run only: nothing recorded during the first run is in them.
C37_SecondRunStartsAfresh ==
    (pc = "returned" /\ Len(earlier) = 1) =>
        /\ CountWhere(SummaryVulnerabilities, LAMBDA e : e.tag = "failed") = summary.failed
        /\ getSecurityReport.critical = summary.critical
        /\ getSecurityReport.passed <= summary.passed + 1

\* C38: for every payload, one that carries a uniqueKey or signerPublicKey
\* of its own included, the body prepareRequestBody builds carries the
\* signer's public key and a freshly generated unique key, the caller's
\* values never surviving; every other field of the payload is unchanged;
\* no two bodies built by the same signer share a unique key.
OwnFields == {Field("signerPublicKey"), Field("uniqueKey")}
C38_BodyCarriesFreshKey ==
    \A i \in DOMAIN calls :
        LET c == calls[i]
            body == c.sent.body
        IN  (c.fetches > 0 /\ c.hasData) =>
                /\ \A f \in 1..Len(FieldNames) :
                        Cardinality({k \in 1..Len(body) : body[k][1] = f}) =
                            (IF f \in OwnFields \/ HasField(c.data, f) THEN 1 ELSE 0)
                /\ GetField(body, Field("signerPublicKey")) = signAuth.publicKey
                /\ HasField(c.data, Field("uniqueKey")) =>
                        GetField(body, Field("uniqueKey")) # GetField(c.data, Field("uniqueKey"))
                /\ \A k \in 1..Len(c.data) :
                        c.data[k][1] \notin OwnFields => body[k] = c.data[k]
                /\ \A j \in DOMAIN calls :
                        (j # i /\ calls[j].fetches > 0 /\ calls[j].hasData) =>
                            GetField(calls[j].sent.body, Field("uniqueKey")) #
                                GetField(body, Field("uniqueKey"))
C38_Witness ==
    \E i, j \in DOMAIN calls :
        /\ i # j
        /\ calls[i].fetches = 1 /\ calls[i].data = OwnFieldsPayload
        /\ calls[j].fetches = 1 /\ calls[j].data = OwnFieldsPayload
        /\ GetField(calls[i].sent.body, Field("signerPublicKey")) # CallerPublicKey

\* C39: for every call made with a payload the signature in the signature
\* header is computed over exactly the body that is sent, unique key and
\* signer public key included, and the unique key is generated once for the
\* call, not once for signing and once for sending.
C39_SignatureOverSentBody ==
    /\ \A i \in DOMAIN calls :
            (calls[i].fetches > 0 /\ calls[i].hasData) =>
                /\ calls[i].sent.signature = signRequest(signAuth, calls[i].sent.body).value
                /\ GetField(calls[i].sent.body, Field("uniqueKey")) \in
                        {generateUniqueKey(n) : n \in 1..Drawn}
    /\ Drawn = Cardinality({i \in DOMAIN calls : calls[i].hasData /\ calls[i].st \in {"dispatched", "settled"}})
C39_Witness ==
    \E i \in DOMAIN calls :
        /\ calls[i].st = "settled" /\ calls[i].entry = "requestBridge" /\ calls[i].outcome = "ok"
        /\ Len(calls[i].sent.signature) = 2 * SignatureBytes
        /\ calls[i].sent.signature = signRequest(signAuth, calls[i].sent.body).value

====
